---- MODULE Spec2Model ----
(***************************************************************************)
(* Model of streamlit_app.py: a Streamlit script that is executed from     *)
(* top to bottom on every user interaction.  One run of the script loads   *)
(* the API key, renders the widgets and, when a file and a question are    *)
(* present, decodes the file, builds one prompt message, opens a streamed  *)
(* chat completion and writes the fragments to the page.                   *)
(*                                                                         *)
(* Text is modelled as a sequence of Unicode code points, an uploaded file *)
(* as a sequence of bytes.                                                 *)
(***************************************************************************)
EXTENDS Integers, Sequences, FiniteSets, TLC

\* ---------------------------------------------------------------- bounds
\* Longest uploaded file, in bytes.
MaxFileLen == 2
\* Longest question, in characters.
MaxQLen == 1
\* Most fragments one streamed response delivers.
MaxFrags == 2
\* Most script runs in one session.
MaxRuns == 5

\* Bytes a file is made of: "A", and the two bytes of U+00E9 (0xC3 0xA9),
\* which decode together and are invalid alone or in the wrong order.
ByteAlphabet == {65, 195, 169}
\* Characters a question is made of: "?".
QuestionAlphabet == {63}
\* Fragments the remote service streams: "T", "hi" and the empty fragment.
Fragments == {<<84>>, <<104, 105>>, <<>>}
\* Error texts the remote service or the client library raises: "401", "429".
RemoteErrors == {<<52, 48, 49>>, <<52, 50, 57>>}
\* A configured API key: "sk".
SampleKey == <<115, 107>>

SeqsUpTo(S, n) == UNION {[1..k -> S] : k \in 0..n}

Files == SeqsUpTo(ByteAlphabet, MaxFileLen)
Questions == SeqsUpTo(QuestionAlphabet, MaxQLen)

\* ------------------------------------------------------------ fixed text
\* st.title text (line 6):
\*   '\U0001f4c4 Document Question Answering'
TitleText ==
    <<128196, 32, 68, 111, 99, 117, 109, 101, 110, 116, 32, 81, 117, 101,
      115, 116, 105, 111, 110, 32, 65, 110, 115, 119, 101, 114, 105, 110,
      103>>

\* st.write text (lines 8-9):
\*   "Upload a document (.txt or .md) and ask a question. The app will use 
\*   an AI model to find the answer within the document. You'll need an Ope
\*   nAI API key to use this app. You can get one from the [OpenAI Platform
\*   ](https://platform.openai.com/account/api-keys)."
DescriptionText ==
    <<85, 112, 108, 111, 97, 100, 32, 97, 32, 100, 111, 99, 117, 109, 101,
      110, 116, 32, 40, 46, 116, 120, 116, 32, 111, 114, 32, 46, 109, 100,
      41, 32, 97, 110, 100, 32, 97, 115, 107, 32, 97, 32, 113, 117, 101, 115,
      116, 105, 111, 110, 46, 32, 84, 104, 101, 32, 97, 112, 112, 32, 119,
      105, 108, 108, 32, 117, 115, 101, 32, 97, 110, 32, 65, 73, 32, 109,
      111, 100, 101, 108, 32, 116, 111, 32, 102, 105, 110, 100, 32, 116, 104,
      101, 32, 97, 110, 115, 119, 101, 114, 32, 119, 105, 116, 104, 105, 110,
      32, 116, 104, 101, 32, 100, 111, 99, 117, 109, 101, 110, 116, 46, 32,
      89, 111, 117, 39, 108, 108, 32, 110, 101, 101, 100, 32, 97, 110, 32,
      79, 112, 101, 110, 65, 73, 32, 65, 80, 73, 32, 107, 101, 121, 32, 116,
      111, 32, 117, 115, 101, 32, 116, 104, 105, 115, 32, 97, 112, 112, 46,
      32, 89, 111, 117, 32, 99, 97, 110, 32, 103, 101, 116, 32, 111, 110,
      101, 32, 102, 114, 111, 109, 32, 116, 104, 101, 32, 91, 79, 112, 101,
      110, 65, 73, 32, 80, 108, 97, 116, 102, 111, 114, 109, 93, 40, 104,
      116, 116, 112, 115, 58, 47, 47, 112, 108, 97, 116, 102, 111, 114, 109,
      46, 111, 112, 101, 110, 97, 105, 46, 99, 111, 109, 47, 97, 99, 99, 111,
      117, 110, 116, 47, 97, 112, 105, 45, 107, 101, 121, 115, 41, 46>>

\* st.error text (line 19):
\*   'ERROR: OpenAI API key not found. Please add it to your secrets file.'
ConfigErrorText ==
    <<69, 82, 82, 79, 82, 58, 32, 79, 112, 101, 110, 65, 73, 32, 65, 80, 73,
      32, 107, 101, 121, 32, 110, 111, 116, 32, 102, 111, 117, 110, 100, 46,
      32, 80, 108, 101, 97, 115, 101, 32, 97, 100, 100, 32, 105, 116, 32,
      116, 111, 32, 121, 111, 117, 114, 32, 115, 101, 99, 114, 101, 116, 115,
      32, 102, 105, 108, 101, 46>>

\* st.info text (line 27):
\*   'Please add your OpenAI API key to your secrets file to continue.'
InfoText ==
    <<80, 108, 101, 97, 115, 101, 32, 97, 100, 100, 32, 121, 111, 117, 114,
      32, 79, 112, 101, 110, 65, 73, 32, 65, 80, 73, 32, 107, 101, 121, 32,
      116, 111, 32, 121, 111, 117, 114, 32, 115, 101, 99, 114, 101, 116, 115,
      32, 102, 105, 108, 101, 32, 116, 111, 32, 99, 111, 110, 116, 105, 110,
      117, 101, 46>>

\* st.file_uploader label (line 36):
\*   'Upload your document'
UploaderLabel ==
    <<85, 112, 108, 111, 97, 100, 32, 121, 111, 117, 114, 32, 100, 111, 99,
      117, 109, 101, 110, 116>>

\* st.text_area label (line 43):
\*   'Ask a question about the document'
QuestionLabel ==
    <<65, 115, 107, 32, 97, 32, 113, 117, 101, 115, 116, 105, 111, 110, 32,
      97, 98, 111, 117, 116, 32, 116, 104, 101, 32, 100, 111, 99, 117, 109,
      101, 110, 116>>

\* f-string part (line 61):
\*   'You are an expert at answering questions based on a provided document
\*   .\n\n'
InstructionLine ==
    <<89, 111, 117, 32, 97, 114, 101, 32, 97, 110, 32, 101, 120, 112, 101,
      114, 116, 32, 97, 116, 32, 97, 110, 115, 119, 101, 114, 105, 110, 103,
      32, 113, 117, 101, 115, 116, 105, 111, 110, 115, 32, 98, 97, 115, 101,
      100, 32, 111, 110, 32, 97, 32, 112, 114, 111, 118, 105, 100, 101, 100,
      32, 100, 111, 99, 117, 109, 101, 110, 116, 46, 10, 10>>

\* f-string part before {document} (line 62):
\*   'Here is the document:\n\n---\n\n'
DocumentHeader ==
    <<72, 101, 114, 101, 32, 105, 115, 32, 116, 104, 101, 32, 100, 111, 99,
      117, 109, 101, 110, 116, 58, 10, 10, 45, 45, 45, 10, 10>>

\* f-string part after {document} (line 62):
\*   '\n\n---\n\n'
DocumentFooter ==
    <<10, 10, 45, 45, 45, 10, 10>>

\* f-string part before {question} (line 63):
\*   'Based on the document, please answer the following question: '
QuestionLead ==
    <<66, 97, 115, 101, 100, 32, 111, 110, 32, 116, 104, 101, 32, 100, 111,
      99, 117, 109, 101, 110, 116, 44, 32, 112, 108, 101, 97, 115, 101, 32,
      97, 110, 115, 119, 101, 114, 32, 116, 104, 101, 32, 102, 111, 108, 108,
      111, 119, 105, 110, 103, 32, 113, 117, 101, 115, 116, 105, 111, 110,
      58, 32>>

\* f-string part before {e} (line 80):
\*   'An error occurred: '
ErrorPrefix ==
    <<65, 110, 32, 101, 114, 114, 111, 114, 32, 111, 99, 99, 117, 114, 114,
      101, 100, 58, 32>>

\* The model name passed to the completion call.
ModelName == "gpt-3.5-turbo"

\* The text of a UnicodeDecodeError: the codec name "utf-8" that leads
\* Python's message.
DecodeErrorText == <<117, 116, 102, 45, 56>>

\* ------------------------------------------------------- Python semantics
\* A truth test that takes every string for true.
StrAlwaysTruthy(s) == TRUE

\* bool(s) of a str: the empty string is falsy.
StrTruthy(s) == s # <<>>

\* bool(f) of the file_uploader's value: None is falsy, an UploadedFile (an
\* io.BytesIO, which defines neither __bool__ nor __len__) is truthy
\* whatever its size.
FileTruthy(f) == f.present

\* st.secrets["API_KEY"]: FileNotFoundError without a secrets file, KeyError
\* without the key, the value otherwise.
SecretsLookup(s) ==
    IF ~s.file THEN [raised |-> "FileNotFoundError", value |-> <<>>]
    ELSE IF ~s.has_key THEN [raised |-> "KeyError", value |-> <<>>]
    ELSE [raised |-> "none", value |-> s.value]

\* A handler that names KeyError alone.
LookupCatchesKeyError(exc) == exc = "KeyError"

\* except (KeyError, FileNotFoundError)
LookupCatches(exc) == exc \in {"KeyError", "FileNotFoundError"}

\* A handler that names UnicodeDecodeError alone.
ExceptCatchesDecodeError(exc) == exc = "UnicodeDecodeError"

\* except Exception: both failures of the request path are Exceptions.
ExceptCatches(exc) == exc \in {"UnicodeDecodeError", "APIError"}

IsContinuation(b) == b >= 128 /\ b <= 191

\* bytes.decode(): strict UTF-8.  One-byte and two-byte sequences are
\* decoded; every other lead byte raises (lead bytes of three- and
\* four-byte sequences are outside ByteAlphabet).
RECURSIVE Utf8DecodeFrom(_, _)
Utf8DecodeFrom(b, acc) ==
    IF b = <<>> THEN [ok |-> TRUE, text |-> acc]
    ELSE LET h == Head(b) IN
         IF h < 128 THEN Utf8DecodeFrom(Tail(b), Append(acc, h))
         ELSE IF h >= 194 /\ h <= 223 /\ Len(b) >= 2 /\ IsContinuation(b[2])
              THEN Utf8DecodeFrom(Tail(Tail(b)),
                                  Append(acc, (h - 192) * 64 + (b[2] - 128)))
              ELSE [ok |-> FALSE, text |-> <<>>]

Utf8Decode(b) == Utf8DecodeFrom(b, <<>>)

\* A read from a file whose position was left at its end.
ReadFileAtEnd(f) == <<>>

\* uploaded_file.read(): the whole content (each run gets a fresh
\* UploadedFile positioned at 0).
ReadFile(f) == f.data

\* A prompt with the document and the question in each other's place.
BuildMessagesSwapped(document, question) ==
    << [role |-> "user",
        content |-> InstructionLine \o DocumentHeader \o question
                    \o DocumentFooter \o QuestionLead \o document] >>

\* The messages list of lines 58-65.
BuildMessages(document, question) ==
    << [role |-> "user",
        content |-> InstructionLine \o DocumentHeader \o document
                    \o DocumentFooter \o QuestionLead \o question] >>

\* A text area that is never disabled.
TextAreaNeverDisabled(f) == FALSE

\* disabled=not uploaded_file
TextAreaDisabled(f) == ~FileTruthy(f)

\* if uploaded_file and question
RequestCondition(f, q) == FileTruthy(f) /\ StrTruthy(q)

\* ------------------------------------------------------------------ page
El(kind, text, disabled) ==
    [kind |-> kind, text |-> text, disabled |-> disabled]

\* A banner that leaves the error's text out.
ErrorBannerGeneric(e) == [kind |-> "error", text |-> ErrorPrefix, disabled |-> FALSE]

\* st.error(f"An error occurred: {e}")
ErrorBanner(e) == El("error", ErrorPrefix \o e, FALSE)

\* A handler that puts the banner in the place of the streamed output.
HandleExceptionReplacing(pg, e) ==
    Append(SelectSeq(pg, LAMBDA el : el.kind # "stream"),
           [kind |-> "error", text |-> ErrorPrefix \o e, disabled |-> FALSE])

\* The except handler of lines 79-80: one more element under what is
\* already on the page.
HandleException(pg, e) == Append(pg, ErrorBanner(e))

\* A writer that shows the newest fragment alone.
WriteFragmentReplacing(text, f) == f

\* st.write_stream appending one fragment to the text written so far.
WriteFragment(text, f) == text \o f

Kinds(pg) == {pg[i].kind : i \in 1..Len(pg)}
CountKind(pg, k) == Cardinality({i \in 1..Len(pg) : pg[i].kind = k})

RECURSIVE Flatten(_)
Flatten(ss) == IF ss = <<>> THEN <<>> ELSE Head(ss) \o Flatten(Tail(ss))

\* ----------------------------------------------------------------- state
VARIABLES
    secrets,         \* the secrets store: [file, has_key, value]
    uploaded_file,   \* the file_uploader's value: [present, data]
    question,        \* the text_area's value
    pc,              \* where the current script run is
    openai_api_key,  \* the script's variable: [bound, value]
    client,          \* the OpenAI client: [created, api_key]
    document,        \* the script's variable: [bound, value]
    messages,        \* the script's variable, <<>> until built
    page,            \* the elements this run has rendered, in order
    spinner,         \* whether the spinner is shown
    raised,          \* the exceptions raised in this run: [type, text]
    request,         \* the completion request of this run: [sent, ...]
    received,        \* the fragments the stream has delivered in this run
    inFlight,        \* completion streams that are open
    calls,           \* completion requests issued in the session
    submissions,     \* runs that reached line 51 with a non-empty file and
                     \* a non-empty question
    decodable,       \* runs that reached line 51 with a file that decodes
                     \* and a non-empty question
    runs,            \* script runs started in the session
    trigger,         \* what started this run
    prevCalled       \* whether the previous run issued a request

widgets == <<uploaded_file, question>>
locals == <<openai_api_key, client, document, messages>>
display == <<page, spinner>>
remote == <<request, received, inFlight, calls>>
history == <<submissions, decodable, runs, trigger, prevCalled>>
vars == <<secrets, widgets, pc, locals, display, raised, remote, history>>

Unbound == [bound |-> FALSE, value |-> <<>>]
Bound(v) == [bound |-> TRUE, value |-> v]
NoFile == [present |-> FALSE, data |-> <<>>]
NoClient == [created |-> FALSE, api_key |-> <<>>]
NoRequest ==
    [sent |-> FALSE, model |-> "", messages |-> <<>>, stream |-> FALSE,
     api_key |-> <<>>]

\* The states the secrets store can be in: no secrets file, a file without
\* the key, the key with an empty value, the key with a value.
SecretStores ==
    { [file |-> FALSE, has_key |-> FALSE, value |-> <<>>],
      [file |-> TRUE, has_key |-> FALSE, value |-> <<>>],
      [file |-> TRUE, has_key |-> TRUE, value |-> <<>>],
      [file |-> TRUE, has_key |-> TRUE, value |-> SampleKey] }

\* No script run is executing.
Idle == pc \in {"stopped", "finished", "done", "failed", "crashed"}

\* The text st.write_stream has written in this run.
Rendered ==
    IF \E i \in 1..Len(page) : page[i].kind = "stream"
    THEN page[CHOOSE i \in 1..Len(page) : page[i].kind = "stream"].text
    ELSE <<>>

Init ==
    /\ secrets \in SecretStores
    /\ uploaded_file = NoFile
    /\ question = <<>>
    /\ pc = "start"
    /\ openai_api_key = Unbound
    /\ client = NoClient
    /\ document = Unbound
    /\ messages = <<>>
    /\ page = <<>>
    /\ spinner = FALSE
    /\ raised = <<>>
    /\ request = NoRequest
    /\ received = <<>>
    /\ inFlight = 0
    /\ calls = 0
    /\ submissions = 0
    /\ decodable = 0
    /\ runs = 1
    /\ trigger = "session"
    /\ prevCalled = FALSE

\* ------------------------------------------------------------- user steps
\* A user interaction re-executes the script from line 1 with fresh
\* script variables and an empty page.
StartRun(trig) ==
    /\ Idle
    /\ runs < MaxRuns
    /\ pc' = "start"
    /\ openai_api_key' = Unbound
    /\ client' = NoClient
    /\ document' = Unbound
    /\ messages' = <<>>
    /\ page' = <<>>
    /\ spinner' = FALSE
    /\ raised' = <<>>
    /\ request' = NoRequest
    /\ received' = <<>>
    /\ runs' = runs + 1
    /\ trigger' = trig
    /\ prevCalled' = request.sent
    /\ UNCHANGED <<secrets, inFlight, calls, submissions, decodable>>

\* The user reruns the script with the widgets as they are.
Rerun ==
    /\ StartRun("rerun")
    /\ UNCHANGED widgets

\* The user uploads (or replaces) a file.
Upload(data) ==
    /\ "file_uploader" \in {page[i].kind : i \in 1..Len(page)}
    /\ uploaded_file # [present |-> TRUE, data |-> data]
    /\ StartRun("upload")
    /\ uploaded_file' = [present |-> TRUE, data |-> data]
    /\ UNCHANGED question

\* The user removes the uploaded file; the text area keeps its text.
RemoveFile ==
    /\ "file_uploader" \in {page[i].kind : i \in 1..Len(page)}
    /\ uploaded_file.present
    /\ StartRun("remove")
    /\ uploaded_file' = NoFile
    /\ UNCHANGED question

\* The user edits the question; a disabled text area cannot be edited.
EnterQuestion(q) ==
    /\ \E i \in 1..Len(page) :
          page[i].kind = "text_area" /\ ~page[i].disabled
    /\ q # question
    /\ StartRun("question")
    /\ question' = q
    /\ UNCHANGED uploaded_file

\* ----------------------------------------------------------- script steps
\* An exception raised inside the try block of lines 52-80.
RaiseInTry(type, text) ==
    /\ raised' = Append(raised, [type |-> type, text |-> text])
    /\ IF ExceptCatches(type)
       THEN page' = HandleException(page, text) /\ pc' = "failed"
       ELSE page' = page /\ pc' = "crashed"

\* Lines 6-20: title, description and the API key lookup.
Startup ==
    /\ pc = "start"
    /\ LET r == SecretsLookup(secrets)
           pg == <<El("title", TitleText, FALSE),
                   El("write", DescriptionText, FALSE)>>
       IN IF r.raised # "none"
          THEN /\ raised' = Append(raised, [type |-> r.raised, text |-> <<>>])
               /\ openai_api_key' = openai_api_key
               /\ IF LookupCatches(r.raised)
                  THEN /\ page' = Append(pg, El("error", ConfigErrorText, FALSE))
                       /\ pc' = "stopped"
                  ELSE /\ page' = pg
                       /\ pc' = "crashed"
          ELSE /\ raised' = raised
               /\ openai_api_key' = Bound(r.value)
               /\ page' = pg
               /\ pc' = "main"
    /\ UNCHANGED <<secrets, widgets, client, document, messages, spinner,
                   remote, history>>

\* Lines 25-51: the info message, or the client, the two widgets and the
\* test that guards the request.
Main ==
    /\ pc = "main"
    /\ IF ~StrTruthy(openai_api_key.value)
       THEN /\ page' = Append(page, El("info", InfoText, FALSE))
            /\ pc' = "finished"
            /\ UNCHANGED <<client, submissions, decodable>>
       ELSE /\ client' = [created |-> TRUE, api_key |-> openai_api_key.value]
            /\ page' = page \o
                  << El("file_uploader", UploaderLabel, FALSE),
                     El("text_area", QuestionLabel,
                        TextAreaDisabled(uploaded_file)) >>
            /\ pc' = IF RequestCondition(uploaded_file, question)
                     THEN "request" ELSE "finished"
            /\ submissions' =
                  IF uploaded_file.present /\ uploaded_file.data # <<>>
                     /\ question # <<>>
                  THEN submissions + 1 ELSE submissions
            /\ decodable' =
                  IF uploaded_file.present
                     /\ Utf8Decode(uploaded_file.data).ok /\ question # <<>>
                  THEN decodable + 1 ELSE decodable
    /\ UNCHANGED <<secrets, widgets, openai_api_key, document, messages,
                   spinner, raised, remote, runs, trigger, prevCalled>>

\* Lines 52-65: read and decode the file, build the messages.
ReadDocument ==
    /\ pc = "request"
    /\ LET d == Utf8Decode(ReadFile(uploaded_file))
       IN IF d.ok
          THEN /\ document' = Bound(d.text)
               /\ messages' = BuildMessages(d.text, question)
               /\ pc' = "built"
               /\ UNCHANGED <<page, raised>>
          ELSE /\ RaiseInTry("UnicodeDecodeError", DecodeErrorText)
               /\ UNCHANGED <<document, messages>>
    /\ UNCHANGED <<secrets, widgets, openai_api_key, client, spinner,
                   remote, history>>

\* The request of lines 70-74, as the remote service receives it.
Sent ==
    [sent |-> TRUE, model |-> ModelName, messages |-> messages,
     stream |-> TRUE, api_key |-> client.api_key]

\* Lines 69-74: the spinner is shown and the completion call returns an
\* open stream.
OpenStream ==
    /\ pc = "built"
    /\ request' = Sent
    /\ calls' = calls + 1
    /\ inFlight' = inFlight + 1
    /\ spinner' = TRUE
    /\ page' = Append(page, El("stream", <<>>, FALSE))
    /\ pc' = "streaming"
    /\ UNCHANGED <<secrets, widgets, locals, raised, received, history>>

\* Lines 69-74: the completion call raises (authentication, rate limit,
\* network); the with block removes the spinner.
OpenStreamFails(e) ==
    /\ pc = "built"
    /\ request' = Sent
    /\ calls' = calls + 1
    /\ spinner' = FALSE
    /\ RaiseInTry("APIError", e)
    /\ UNCHANGED <<secrets, widgets, locals, received, inFlight, history>>

\* Line 77: the stream delivers a fragment and write_stream writes it.
StreamFragment(f) ==
    /\ pc = "streaming"
    /\ Len(received) < MaxFrags
    /\ received' = Append(received, f)
    /\ page' = [page EXCEPT ![Len(page)].text = WriteFragment(@, f)]
    /\ UNCHANGED <<secrets, widgets, pc, locals, spinner, raised, request,
                   inFlight, calls, history>>

\* Line 77: the stream closes normally.
StreamEnd ==
    /\ pc = "streaming"
    /\ pc' = "done"
    /\ inFlight' = inFlight - 1
    /\ spinner' = FALSE
    /\ UNCHANGED <<secrets, widgets, locals, page, raised, request,
                   received, calls, history>>

\* Line 77: the stream raises part-way.
StreamFails(e) ==
    /\ pc = "streaming"
    /\ inFlight' = inFlight - 1
    /\ spinner' = FALSE
    /\ RaiseInTry("APIError", e)
    /\ UNCHANGED <<secrets, widgets, locals, request, received, calls,
                   history>>

StreamCloses == StreamEnd \/ \E e \in RemoteErrors : StreamFails(e)

Next ==
    \/ Rerun
    \/ \E data \in Files : Upload(data)
    \/ RemoveFile
    \/ \E q \in Questions : EnterQuestion(q)
    \/ Startup
    \/ Main
    \/ ReadDocument
    \/ OpenStream
    \/ \E e \in RemoteErrors : OpenStreamFails(e)
    \/ \E f \in Fragments : StreamFragment(f)
    \/ StreamEnd
    \/ \E e \in RemoteErrors : StreamFails(e)

Spec == Init /\ [][Next]_vars

\* The remote stream eventually delivers its end or an error.
FairSpec == Spec /\ WF_vars(StreamCloses)

\* ------------------------------------------------------------ properties
\* The offset of the document inside the prompt, and the fixed text that
\* stands between the instruction sentence, the document and the question.
InstructionSentence == SubSeq(InstructionLine, 1, Len(InstructionLine) - 2)
FirstDelimiter == <<10, 10>> \o DocumentHeader
SecondDelimiter == DocumentFooter \o QuestionLead
DocumentOffset == Len(InstructionSentence) + Len(FirstDelimiter)

LastOf(pg) == pg[Len(pg)]
CredentialPresent ==
    secrets.file /\ secrets.has_key /\ secrets.value # <<>>
PastWidgets == pc \notin {"start", "main"}

\* C1: a completion request has been issued only if the decoded document
\* and the question are both non-empty, whatever file was uploaded.
C1_RequestOnlyWithDocumentAndQuery ==
    request.sent =>
        document.bound /\ document.value # <<>> /\ question # <<>>

\* C2: with no secrets file or no API_KEY in it, the run shows the
\* configuration error as its last element and stops there: no uploader,
\* no text area, no client and no completion request, in any run.
C2_MissingCredentialHalts ==
    (~secrets.file \/ ~secrets.has_key) =>
        /\ pc \in {"start", "stopped"}
        /\ pc = "stopped" =>
              /\ LastOf(page) = El("error", ConfigErrorText, FALSE)
              /\ CountKind(page, "error") = 1
              /\ Len(raised) = 1
        /\ Kinds(page) \cap {"file_uploader", "text_area", "stream"} = {}
        /\ ~client.created
        /\ ~request.sent
        /\ calls = 0
        /\ inFlight = 0

C2_Witness ==
    /\ ~secrets.file
    /\ pc = "stopped"
    /\ trigger = "rerun"
    /\ raised = << [type |-> "FileNotFoundError", text |-> <<>>] >>

\* C3: with a credential and no uploaded file, the text area is rendered
\* disabled and the run reads no document, builds no prompt and issues no
\* request, whatever text the text area holds.
C3_NoFileNoRequest ==
    (CredentialPresent /\ ~uploaded_file.present /\ PastWidgets) =>
        /\ pc = "finished"
        /\ \E i \in 1..Len(page) : page[i].kind = "text_area"
        /\ \A i \in 1..Len(page) :
              page[i].kind = "text_area" => page[i].disabled
        /\ ~document.bound
        /\ messages = <<>>
        /\ ~request.sent
        /\ raised = <<>>

C3_Witness ==
    /\ CredentialPresent
    /\ ~uploaded_file.present
    /\ question # <<>>
    /\ pc = "finished"

\* C4: for a non-empty document D and a non-empty question Q the prompt is
\* one user message whose content is the instruction sentence, a fixed
\* delimiter, D, a second fixed delimiter and Q, and nothing else.
C4_PromptLayout ==
    (messages # <<>> /\ document.value # <<>> /\ question # <<>>) =>
        /\ Len(messages) = 1
        /\ messages[1].role = "user"
        /\ LET c == messages[1].content
               D == Utf8Decode(uploaded_file.data).text
               Q == question
               a == DocumentOffset
               b == DocumentOffset + Len(D) + Len(SecondDelimiter)
           IN /\ document.value = D
              /\ Len(c) = b + Len(Q)
              /\ SubSeq(c, 1, Len(InstructionSentence)) = InstructionSentence
              /\ SubSeq(c, Len(InstructionSentence) + 1, a) = FirstDelimiter
              /\ SubSeq(c, a + 1, a + Len(D)) = D
              /\ SubSeq(c, a + Len(D) + 1, b) = SecondDelimiter
              /\ SubSeq(c, b + 1, Len(c)) = Q

C4_Witness ==
    /\ pc = "built"
    /\ document.value = <<233>>
    /\ question = <<63>>
    /\ Len(messages) = 1

\* C5: while a response streams and after it closes, the text on the page
\* is the concatenation, in order, of the fragments delivered so far.
C5_RenderedIsConcatenation ==
    pc \in {"streaming", "done"} => Rendered = Flatten(received)

C5_Witness ==
    /\ pc = "done"
    /\ received = << <<84>>, <<104, 105>> >>
    /\ Rendered = <<84, 104, 105>>

\* C6: when the completion call or the stream raises after k >= 0
\* fragments, the run ends handled with exactly one error element added
\* under the page as it was: the k fragments stay as rendered.
C6_FailureKeepsPartialOutput ==
    [][(pc \in {"built", "streaming"} /\ raised' # raised) =>
          /\ pc' = "failed"
          /\ Len(page') = Len(page) + 1
          /\ SubSeq(page', 1, Len(page)) = page
          /\ LastOf(page').kind = "error"
          /\ CountKind(page', "error") = 1
          /\ Rendered' = Rendered
          /\ Rendered' = Flatten(received')
          /\ received' = received]_vars

C6_Witness ==
    /\ pc = "failed"
    /\ Len(received) = 2
    /\ Rendered = <<104, 105, 84>>
    /\ LastOf(page).kind = "error"

\* C7: a failure of the request path shows one error element that ends
\* with the error's text; a decoding failure issues no request; and a run
\* starts with nothing left from the run before it.
C7_RequestErrorHandled ==
    /\ pc = "failed" =>
          /\ Len(raised) = 1
          /\ CountKind(page, "error") = 1
          /\ LET t == LastOf(page).text
                 e == raised[1].text
             IN /\ LastOf(page).kind = "error"
                /\ e # <<>>
                /\ Len(t) > Len(e)
                /\ SubSeq(t, Len(t) - Len(e) + 1, Len(t)) = e
          /\ raised[1].type = "UnicodeDecodeError" =>
                ~request.sent /\ messages = <<>>
          /\ inFlight = 0
          /\ ~spinner
    /\ pc = "start" =>
          /\ locals = <<Unbound, NoClient, Unbound, <<>> >>
          /\ display = << <<>>, FALSE>>
          /\ raised = <<>>
          /\ request = NoRequest
          /\ received = <<>>
          /\ inFlight = 0

C7_Witness ==
    /\ pc = "failed"
    /\ trigger = "rerun"
    /\ raised = << [type |-> "UnicodeDecodeError", text |-> DecodeErrorText] >>
    /\ uploaded_file.data = <<195>>

C10_EmptyKeyShowsInfo ==
    (secrets.file /\ secrets.has_key /\ secrets.value = <<>>) =>
        /\ pc \in {"start", "main", "finished"}
        /\ raised = <<>>
        /\ pc = "finished" =>
              /\ LastOf(page) = El("info", InfoText, FALSE)
              /\ Kinds(page) = {"title", "write", "info"}
        /\ ~client.created
        /\ ~request.sent
        /\ calls = 0

C10_Witness ==
    /\ secrets.has_key
    /\ secrets.value = <<>>
    /\ pc = "finished"
    /\ openai_api_key = Bound(<<>>)
    /\ Kinds(page) = {"title", "write", "info"}

====
